---------------------------- MODULE Spec2Model ----------------------------
(***************************************************************************)
(* A model of geckolib_exporter.py: the operator ExportAnimJSON.execute    *)
(* and the two helpers closest_euler_equiv and apply_swap_mapping.         *)
(*                                                                         *)
(* Angles.  Quaternion.to_euler returns radians; the orientations the      *)
(* model samples all decompose to multiples of pi/4, so a radian value is  *)
(* kept as its integer number of quarter-pi units (a full turn is 8 of     *)
(* them) and a degree value as its integer number of degrees (a full turn  *)
(* is 360).  math.degrees is the multiplication by 45 between the two.     *)
(*                                                                         *)
(* Optional values.  Python's None is the empty sequence and a present     *)
(* value v is the one-element sequence <<v>>.                              *)
(*                                                                         *)
(* Scale and position channels (lines 202-206, 229-235, 287-330) neither   *)
(* read nor write any state of the rotation channel and are left out.      *)
(***************************************************************************)
EXTENDS Integers, Sequences, FiniteSets, TLC

None == <<>>
Some(v) == <<v>>

(***************************************************************************)
(* Bounds of the model.                                                    *)
(***************************************************************************)
\* start_frame and end_frame range over -MaxFrame..MaxFrame
MaxFrame == 2
\* step ranges over 1..MaxStep
MaxStep == 2
\* candidate triples of the search specification lie up to MaxHalfTurns
\* half turns from zero
MaxHalfTurns == 8
\* frames processed by the stage-order specification
MaxOrderFrames == 2
\* the sample specification exports the frames 1..MaxSampleFrames
MaxSampleFrames == 2

\* names of the objects a scene may hold (obj.name)
Names == {"Cube", "Bone"}

(***************************************************************************)
(* Program constants.                                                      *)
(***************************************************************************)
EXPORT_FPS == 24
\* IntProperty unwrap_max_shift: min and max
UnwrapShiftMin == 0
UnwrapShiftMax == 3
\* full turn in degrees, and in quarter-pi units (2*pi)
FullDegrees == 360
FullRadians == 8
\* math.degrees of one quarter-pi unit
DegreesPerUnit == 45

SWAP_ITEMS ==
    { <<"X","Y","Z">>, <<"X","Z","Y">>, <<"Y","X","Z">>,
      <<"Y","Z","X">>, <<"Z","X","Y">>, <<"Z","Y","X">> }

(***************************************************************************)
(* closest_euler_equiv                                                     *)
(***************************************************************************)
Full(in_degrees) == IF in_degrees THEN FullDegrees ELSE FullRadians

\* cand_z written with ky
Candidate_kyForZ(cur_vals, k, full) ==
    << cur_vals[1] + k[1] * full,
       cur_vals[2] + k[2] * full,
       cur_vals[3] + k[2] * full >>

\* lines 44-46
Candidate(cur_vals, k, full) ==
    << cur_vals[1] + k[1] * full,
       cur_vals[2] + k[2] * full,
       cur_vals[3] + k[3] * full >>

\* dist without the z term
SqDist_noZ(cand, prev_vals) ==
    LET dx == cand[1] - prev_vals[1]
        dy == cand[2] - prev_vals[2]
    IN  dx * dx + dy * dy

\* lines 47-50
SqDist(cand, prev_vals) ==
    LET dx == cand[1] - prev_vals[1]
        dy == cand[2] - prev_vals[2]
        dz == cand[3] - prev_vals[3]
    IN  dx * dx + dy * dy + dz * dz

\* The loop state st is << best, best_dist >>, both None before the first
\* candidate.

\* "dist <= best_dist": the last of the closest candidates wins
Improves_lastWins(st, dist) ==
    st[2] = None \/ dist <= st[2][1]

\* line 51: the test that replaces best
Improves(st, dist) ==
    st[2] = None \/ dist < st[2][1]

\* The three nested loops of lines 41-53, each from its loop variable on.
RECURSIVE LoopZ(_, _, _, _, _, _, _, _)
LoopZ(kz, st, kx, ky, prev_vals, cur_vals, full, max_shift) ==
    IF kz > max_shift
    THEN st
    ELSE LET cand == Candidate(cur_vals, <<kx, ky, kz>>, full)
             dist == SqDist(cand, prev_vals)
         IN  IF Improves(st, dist)
             THEN LoopZ(kz + 1, << Some(cand), Some(dist) >>,
                        kx, ky, prev_vals, cur_vals, full, max_shift)
             ELSE LoopZ(kz + 1, st,
                        kx, ky, prev_vals, cur_vals, full, max_shift)

\* In LoopY and LoopX both branches of the test on the inner loop's result are
\* the same call: the test only makes TLC compute that result before it goes
\* on to the next iteration.
RECURSIVE LoopY(_, _, _, _, _, _, _)
LoopY(ky, st, kx, prev_vals, cur_vals, full, max_shift) ==
    IF ky > max_shift
    THEN st
    ELSE LET inner == LoopZ(0 - max_shift, st, kx, ky,
                            prev_vals, cur_vals, full, max_shift)
         IN  IF inner = st
             THEN LoopY(ky + 1, st, kx, prev_vals, cur_vals, full, max_shift)
             ELSE LoopY(ky + 1, inner, kx, prev_vals, cur_vals, full, max_shift)

RECURSIVE LoopX(_, _, _, _, _, _)
LoopX(kx, st, prev_vals, cur_vals, full, max_shift) ==
    IF kx > max_shift
    THEN st
    ELSE LET inner == LoopY(0 - max_shift, st, kx,
                            prev_vals, cur_vals, full, max_shift)
         IN  IF inner = st
             THEN LoopX(kx + 1, st, prev_vals, cur_vals, full, max_shift)
             ELSE LoopX(kx + 1, inner, prev_vals, cur_vals, full, max_shift)

\* lines 21-54; prev_vals is an optional triple, the result is a triple
closest_euler_equiv(prev_vals, cur_vals, in_degrees, max_shift) ==
    IF prev_vals = None
    THEN cur_vals
    ELSE LoopX(0 - max_shift, << None, None >>, prev_vals[1], cur_vals,
               Full(in_degrees), max_shift)[1][1]

(***************************************************************************)
(* apply_swap_mapping                                                      *)
(***************************************************************************)
idx(c) == CASE c = "X" -> 1 [] c = "Y" -> 2 [] c = "Z" -> 3

apply_swap_mapping(vec, mapping) ==
    [i \in 1..3 |-> vec[idx(mapping[i])]]

(***************************************************************************)
(* Quaternions (w,x,y,z) with integer components: only the sign of a dot   *)
(* product and the rotation a quaternion stands for are ever used, and     *)
(* neither depends on its length.                                          *)
(***************************************************************************)
Dot(a, b) == a[1] * b[1] + a[2] * b[2] + a[3] * b[3] + a[4] * b[4]
Neg(a) == << -a[1], -a[2], -a[3], -a[4] >>

\* the raw samples the source may return (obj.evaluated_get(...), lines 243-250)
SampleQuats ==
    { << 0, 1, 0, 0>>,     \* half a turn about X
      <<-1, 1, 0, 0>>,     \* minus a quarter turn about X, negative sign
      << 1, 1, 1, 1>>,     \* quarter turns about X and Z
      << 0, 0,-1, 0>> }    \* half a turn about Y, negative sign

\* Quaternion.to_euler('XYZ') in quarter-pi units; q and -q are one rotation
\* and decompose alike.
to_euler(qq) ==
    CASE qq = << 0, 1, 0, 0>> \/ qq = << 0,-1, 0, 0>> -> << 4, 0, 0>>
      [] qq = << 1,-1, 0, 0>> \/ qq = <<-1, 1, 0, 0>> -> <<-2, 0, 0>>
      [] qq = << 1, 1, 1, 1>> \/ qq = <<-1,-1,-1,-1>> -> << 2, 0, 2>>
      [] qq = << 0, 0, 1, 0>> \/ qq = << 0, 0,-1, 0>> -> << 0, 4, 0>>

\* math.degrees on each component
degrees(e) == [i \in 1..3 |-> e[i] * DegreesPerUnit]

\* round(x, 5), the result counted in units of 1e-5.  A degree value of the
\* model is a whole number; a radian value is v quarter-pi units, and
\* pi/4 * 1e5 = 78539.8163...
round5(v, in_degrees) ==
    IF in_degrees THEN v * 100000 ELSE (v * 7853982 + 50) \div 100

\* f"{frame / EXPORT_FPS:.4f}", the text read as a number of 1e-4 units.
\* frame * 10000 / 24 is never half way between two integers, and no
\* non-zero frame rounds to zero, so two keys are the same text exactly
\* when they are the same number.
\* a key with one fractional digit only
time_key_1digit(f) == (f * 20 + EXPORT_FPS) \div (2 * EXPORT_FPS)

time_key(f) == (f * 20000 + EXPORT_FPS) \div (2 * EXPORT_FPS)

(***************************************************************************)
(* The stages of the rotation pipeline, lines 252-281.                     *)
(***************************************************************************)
\* lines 253-255 with the test inverted
continuity_flipped(prevq_, q_) ==
    IF prevq_ # None /\ Dot(prevq_[1], q_) >= 0 THEN Neg(q_) ELSE q_

\* lines 253-255
continuity(prevq_, q_) ==
    IF prevq_ # None /\ Dot(prevq_[1], q_) < 0 THEN Neg(q_) ELSE q_

\* lines 258-262 (and 217-220)
euler_convert(q_, p) ==
    IF p.export_degrees THEN degrees(to_euler(q_)) ELSE to_euler(q_)

\* lines 264-266 (and 221-223)
invert(r, p) ==
    << IF p.invert_rot_x THEN -r[1] ELSE r[1],
       IF p.invert_rot_y THEN -r[2] ELSE r[2],
       IF p.invert_rot_z THEN -r[3] ELSE r[3] >>

\* the base left in the order of the source axes
base_swap_none(r0, p) == r0

\* line 225: the swap mapping applied to the base
base_swap(r0, p) == apply_swap_mapping(r0, p.rotation_swap)

\* lines 208-227: base_rot_vec from the start sample
base_of(q0, p) ==
    IF p.export_rotation
    THEN base_swap(invert(euler_convert(q0, p), p), p)
    ELSE <<0, 0, 0>>

\* lines 268-269
swap(r, p) == apply_swap_mapping(r, p.rotation_swap)

\* lines 271-274
zero(r, base, p) ==
    IF p.zero_rot_at_start
    THEN << r[1] - base[1], r[2] - base[2], r[3] - base[3] >>
    ELSE r

\* lines 277-279
search(prev_vals_, r, p) ==
    IF p.use_axis_unwrap
    THEN closest_euler_equiv(prev_vals_, r, p.export_degrees, p.unwrap_max_shift)
    ELSE r

\* the order the specification prescribes: search, zero, swap
stage_after_searchFirst(s) ==
    CASE s = "continuity" -> "convert"
      [] s = "convert"    -> "invert"
      [] s = "invert"     -> "search"
      [] s = "search"     -> "zero"
      [] s = "zero"       -> "swap"
      [] s = "swap"       -> "store"

\* the order of the statements in lines 252-285
stage_after(s) ==
    CASE s = "continuity" -> "convert"
      [] s = "convert"    -> "invert"
      [] s = "invert"     -> "swap"
      [] s = "swap"       -> "zero"
      [] s = "zero"       -> "search"
      [] s = "search"     -> "store"

\* rotation_data[rot_key] = {"vector": rot_vec} on a dict that keeps
\* insertion order: a key already present keeps its place and has its value
\* replaced, a new key goes last.
dict_set(d, k, v) ==
    IF \E i \in 1..Len(d) : d[i].key = k
    THEN [i \in 1..Len(d) |-> IF d[i].key = k THEN [d[i] EXCEPT !.vector = v] ELSE d[i]]
    ELSE Append(d, [key |-> k, vector |-> v])


(***************************************************************************)
(* State of one run of ExportAnimJSON.execute.                             *)
(***************************************************************************)
VARIABLES
    props,              \* self: the operator's properties, fixed for the run
    context,            \* selected_objects, active_object
    source,             \* the orientation of each object at each frame
    pc,                 \* position in execute
    result,             \* None, or what execute returned, or "RAISED"
    reports,            \* the calls of self.report, in order
    scene_frame,        \* scene.frame_current
    frame_set_calls,    \* number of scene.frame_set calls so far
    objects, start, end,
    obj_i,              \* index in objects of the object of the for loop
    frame,              \* the frame of the inner for loop
    base_rot_vec,
    q_raw,              \* q as sampled (lines 243-250)
    prevq,              \* line 253
    q,
    rot,                \* (rx, ry, rz)
    inverted,           \* (rx, ry, rz) as they are after line 266
    stages,             \* the stages run so far on the current frame
    prev_vals,          \* line 277
    rotation_data,
    bones,              \* animation_data["bones"]
    prev_quats,
    prev_exported_rot,
    file,               \* what the path self.filepath holds
    srch,               \* state of the search specification
    ord                 \* state of the stage-order specification

inputs == << props, context, source >>
outcome == << result, reports, file >>
scene == << scene_frame, frame_set_calls >>
loops == << objects, start, end, obj_i, frame >>
sample == << q_raw, q, prevq >>
triple == << rot, inverted, prev_vals >>
channel == << base_rot_vec, rotation_data, bones >>
history == << prev_quats, prev_exported_rot >>

exec_vars ==
    << inputs, pc, outcome, scene, loops, sample, triple, stages, channel,
       history >>

vars == << exec_vars, srch, ord >>

Idle == [pc |-> "idle"]

(***************************************************************************)
(* Inputs.                                                                 *)
(***************************************************************************)
\* lists of distinct objects, by name
ObjectLists ==
    { <<>> } \cup { <<n>> : n \in Names }
             \cup { <<nm[1], nm[2]>> : nm \in { x \in Names \X Names : x[1] # x[2] } }

Contexts ==
    [ export_selected  : BOOLEAN,
      selected_objects : ObjectLists,
      active_object    : { None } \cup { Some(n) : n \in Names } ]

FrameRanges ==
    [ start_frame : (0 - MaxFrame)..MaxFrame,
      end_frame   : (0 - MaxFrame)..MaxFrame,
      step        : 1..MaxStep ]

RotationConfigs ==
    [ export_rotation   : BOOLEAN,
      export_degrees    : BOOLEAN,
      invert_rot_x      : BOOLEAN,
      invert_rot_y      : BOOLEAN,
      invert_rot_z      : BOOLEAN,
      rotation_swap     : SWAP_ITEMS,
      zero_rot_at_start : BOOLEAN,
      use_axis_unwrap   : BOOLEAN,
      unwrap_max_shift  : UnwrapShiftMin..UnwrapShiftMax ]

\* every source over the given frames
Sources(frames) == [Names \X frames -> SampleQuats]

QuatSeq ==
    << << 0, 1, 0, 0>>, <<-1, 1, 0, 0>>, << 1, 1, 1, 1>>, << 0, 0,-1, 0>> >>

NameIndex(n) == IF n = "Cube" THEN 0 ELSE 1

\* two sources that walk through QuatSeq, forwards and backwards, the
\* objects one place apart
WalkSources(frames) ==
    { [nf \in Names \X frames |->
          QuatSeq[((nf[2] * m + NameIndex(nf[1])) % 4) + 1]] : m \in {1, 3} }

NoObject == [n \in Names |-> None]

InitExec(contexts, ranges, configs, sources) ==
    /\ \E c \in contexts : \E r \in ranges : \E g \in configs :
         /\ context = [selected_objects |-> c.selected_objects,
                       active_object |-> c.active_object]
         /\ props = [export_selected |-> c.export_selected] @@ r @@ g
    /\ source \in sources
    /\ pc = "start"
    /\ result = None
    /\ reports = <<>>
    /\ scene_frame = 0
    /\ frame_set_calls = 0
    /\ objects = <<>>
    /\ start = 0
    /\ end = 0
    /\ obj_i = 0
    /\ frame = 0
    /\ base_rot_vec = <<0, 0, 0>>
    /\ q_raw = None
    /\ prevq = None
    /\ q = None
    /\ rot = <<0, 0, 0>>
    /\ inverted = <<0, 0, 0>>
    /\ stages = <<>>
    /\ prev_vals = None
    /\ rotation_data = None
    /\ bones = NoObject
    /\ prev_quats = NoObject
    /\ prev_exported_rot = NoObject
    /\ file = [content |-> "untouched", bones |-> NoObject]

(***************************************************************************)
(* execute                                                                 *)
(***************************************************************************)
obj == objects[obj_i]

\* the selection alone, whatever export_selected says
objects_of_selection(p, c) == c.selected_objects

\* lines 171-175
objects_of(p, c) ==
    IF p.export_selected
    THEN c.selected_objects
    ELSE IF c.active_object # None THEN << c.active_object[1] >> ELSE <<>>

\* one slot for all objects
state_key_shared(o) == "Cube"

\* the key of prev_quats and prev_exported_rot: obj.name
state_key(o) == o

\* scene.frame_set(f)
FrameSet(f) ==
    /\ scene_frame' = f
    /\ frame_set_calls' = frame_set_calls + 1

\* an exception leaves execute: nothing after the raising statement runs
Raise ==
    /\ pc' = "done"
    /\ result' = Some("RAISED")

\* lines 167-189
Start ==
    /\ pc = "start"
    /\ objects' = objects_of(props, context)
    /\ IF objects' = <<>>
       THEN /\ reports' = Append(reports, "WARNING")
            /\ result' = Some("CANCELLED")
            /\ pc' = "done"
            /\ UNCHANGED << start, end, obj_i >>
       ELSE /\ start' = IF props.end_frame < props.start_frame
                        THEN props.end_frame ELSE props.start_frame
            /\ end' = IF props.end_frame < props.start_frame
                      THEN props.start_frame ELSE props.end_frame
            /\ obj_i' = 1
            /\ pc' = "base"
            /\ UNCHANGED << reports, result >>
    /\ UNCHANGED << inputs, file, scene, frame, sample, triple, stages,
                    channel, history, srch, ord >>

\* lines 196-227: the channel of the object and its base sample
Base ==
    /\ pc = "base"
    /\ FrameSet(start)
    /\ rotation_data' = IF props.export_rotation THEN Some(<<>>) ELSE None
    /\ frame' = start
    /\ \/ /\ props.export_rotation
          /\ base_rot_vec' = base_of(source[<<obj, start>>], props)
          /\ pc' = "frame"
          /\ UNCHANGED result
       \/ /\ ~props.export_rotation
          /\ base_rot_vec' = <<0, 0, 0>>
          /\ pc' = "frame"
          /\ UNCHANGED result
       \/ \* obj.evaluated_get or the read of the rotation raises
          /\ props.export_rotation
          /\ Raise
          /\ UNCHANGED base_rot_vec
    /\ UNCHANGED << inputs, reports, file, objects, start, end, obj_i, sample,
                    triple, stages, bones, history, srch, ord >>

\* lines 238-250: the head of the frame loop and the sample of the frame
Frame ==
    /\ pc = "frame"
    /\ \/ /\ frame <= end
          /\ FrameSet(frame)
          /\ \/ /\ props.export_rotation
                /\ q_raw' = Some(source[<<obj, frame>>])
                /\ q' = q_raw'
                /\ stages' = <<>>
                /\ pc' = "continuity"
                /\ UNCHANGED << frame, result >>
             \/ /\ ~props.export_rotation
                /\ frame' = frame + props.step
                /\ pc' = "frame"
                /\ UNCHANGED << q_raw, q, stages, result >>
             \/ /\ props.export_rotation
                /\ Raise
                /\ UNCHANGED << q_raw, q, stages, frame >>
       \/ /\ frame > end
          /\ pc' = "assemble"
          /\ UNCHANGED << scene, q_raw, q, stages, frame, result >>
    /\ UNCHANGED << inputs, reports, file, objects, start, end, obj_i, prevq,
                    triple, channel, history, srch, ord >>

\* lines 252-256
Continuity ==
    /\ pc = "continuity"
    /\ prevq' = prev_quats[state_key(obj)]
    /\ q' = Some(continuity(prevq', q[1]))
    /\ prev_quats' = [prev_quats EXCEPT ![state_key(obj)] = q']
    /\ stages' = Append(stages, "continuity")
    /\ pc' = stage_after("continuity")
    /\ UNCHANGED << inputs, outcome, scene, loops, q_raw, triple, channel,
                    prev_exported_rot, srch, ord >>

\* lines 258-262
Convert ==
    /\ pc = "convert"
    /\ rot' = euler_convert(q[1], props)
    /\ stages' = Append(stages, "convert")
    /\ pc' = stage_after("convert")
    /\ UNCHANGED << inputs, outcome, scene, loops, sample, inverted, prev_vals,
                    channel, history, srch, ord >>

\* lines 264-266
Invert ==
    /\ pc = "invert"
    /\ rot' = invert(rot, props)
    /\ inverted' = rot'
    /\ stages' = Append(stages, "invert")
    /\ pc' = stage_after("invert")
    /\ UNCHANGED << inputs, outcome, scene, loops, sample, prev_vals, channel,
                    history, srch, ord >>

\* lines 268-269
Swap ==
    /\ pc = "swap"
    /\ rot' = swap(rot, props)
    /\ stages' = Append(stages, "swap")
    /\ pc' = stage_after("swap")
    /\ UNCHANGED << inputs, outcome, scene, loops, sample, inverted, prev_vals,
                    channel, history, srch, ord >>

\* lines 271-274
Zero ==
    /\ pc = "zero"
    /\ rot' = zero(rot, base_rot_vec, props)
    /\ stages' = Append(stages, "zero")
    /\ pc' = stage_after("zero")
    /\ UNCHANGED << inputs, outcome, scene, loops, sample, inverted, prev_vals,
                    channel, history, srch, ord >>

\* lines 276-279
Search ==
    /\ pc = "search"
    /\ prev_vals' = prev_exported_rot[state_key(obj)]
    /\ rot' = search(prev_vals', rot, props)
    /\ stages' = Append(stages, "search")
    /\ pc' = stage_after("search")
    /\ UNCHANGED << inputs, outcome, scene, loops, sample, inverted, channel,
                    history, srch, ord >>

\* lines 281-285, and the step of the frame loop
Store ==
    /\ pc = "store"
    /\ prev_exported_rot' =
           [prev_exported_rot EXCEPT ![state_key(obj)] = Some(rot)]
    /\ LET rot_vec == [i \in 1..3 |-> round5(rot[i], props.export_degrees)]
           rot_key == time_key(frame)
       IN  rotation_data' = Some(dict_set(rotation_data[1], rot_key, rot_vec))
    /\ frame' = frame + props.step
    /\ pc' = "frame"
    /\ UNCHANGED << inputs, outcome, scene, objects, start, end, obj_i, sample,
                    triple, stages, base_rot_vec, bones, prev_quats, srch, ord >>

\* lines 332-338, and the step of the object loop
Assemble ==
    /\ pc = "assemble"
    /\ bones' = [bones EXCEPT ![obj] = Some([rotation |-> rotation_data])]
    /\ IF obj_i < Len(objects)
       THEN /\ obj_i' = obj_i + 1
            /\ pc' = "base"
       ELSE /\ pc' = "open"
            /\ UNCHANGED obj_i
    /\ UNCHANGED << inputs, outcome, scene, objects, start, end, frame, sample,
                    triple, stages, base_rot_vec, rotation_data, history,
                    srch, ord >>

\* lines 351-354: the except clause; orig_frame is the frame of Init
WriteFailed ==
    /\ reports' = Append(reports, "ERROR")
    /\ FrameSet(0)
    /\ result' = Some("CANCELLED")
    /\ pc' = "done"

\* lines 348-349: open(self.filepath, 'w') truncates the file or raises
Open ==
    /\ pc = "open"
    /\ \/ /\ file' = [content |-> "empty", bones |-> NoObject]
          /\ pc' = "dump"
          /\ UNCHANGED << reports, scene, result >>
       \/ /\ WriteFailed
          /\ UNCHANGED file
    /\ UNCHANGED << inputs, loops, sample, triple, stages, channel, history,
                    srch, ord >>

\* lines 350-358: json.dump writes the document to the open file piece by
\* piece; a write that raises leaves the pieces written before it
Dump ==
    /\ pc = "dump"
    /\ \/ /\ file' = [content |-> "complete", bones |-> bones]
          /\ FrameSet(0)
          /\ reports' = Append(reports, "INFO")
          /\ result' = Some("FINISHED")
          /\ pc' = "done"
       \/ /\ \E left \in {"empty", "partial"} :
               file' = [content |-> left, bones |-> NoObject]
          /\ WriteFailed
    /\ UNCHANGED << inputs, loops, sample, triple, stages, channel, history,
                    srch, ord >>

Next ==
    \/ Start \/ Base \/ Frame
    \/ Continuity \/ Convert \/ Invert \/ Swap \/ Zero \/ Search \/ Store
    \/ Assemble \/ Open \/ Dump

(***************************************************************************)
(* Spec: every context and every frame range, a few rotation settings.     *)
(***************************************************************************)
AllFrames == (0 - MaxFrame)..MaxFrame

FewConfigs ==
    { g \in RotationConfigs :
        /\ g.export_degrees /\ g.invert_rot_x /\ ~g.invert_rot_y /\ ~g.invert_rot_z
        /\ g.rotation_swap = <<"Y", "X", "Z">>
        /\ g.unwrap_max_shift = 1
        /\ g.zero_rot_at_start = g.use_axis_unwrap
        /\ (~g.export_rotation => g.use_axis_unwrap) }

Init ==
    /\ InitExec(Contexts, FrameRanges, FewConfigs, WalkSources(AllFrames))
    /\ srch = Idle
    /\ ord = Idle

Spec == Init /\ [][Next]_vars

(***************************************************************************)
(* Claims about a run of execute.                                          *)
(***************************************************************************)
Finished == result = Some("FINISHED")

\* the frames range(start, end + 1, step) holds
NumFrames == (end - start) \div props.step + 1
FrameAt(i) == start + (i - 1) * props.step

\* a channel holds the n first sampled frames, keyed in frame order
KeyedInFrameOrder(chan, n) ==
    /\ Len(chan) = n
    /\ \A i \in 1..Len(chan) : chan[i].key = time_key(FrameAt(i))
    /\ \A i \in 1..Len(chan) : \A j \in 1..Len(chan) :
         i < j => chan[i].key < chan[j].key

\* C7: for every start_frame, end_frame (swapped when end < start) and
\* step >= 1, the rotation channel of each object gets exactly one entry per
\* sampled frame start, start+step, ... <= end, appended in frame order and
\* keyed by frame/24 to 4 decimals; the keys are pairwise distinct and
\* strictly increasing in channel order.
C7_OneEntryPerFrame ==
    /\ pc # "start" /\ objects # <<>> =>
         /\ start <= end
         /\ {start, end} = {props.start_frame, props.end_frame}
    /\ rotation_data # None =>
         /\ (frame - start) % props.step = 0
         /\ KeyedInFrameOrder(rotation_data[1], (frame - start) \div props.step)
         /\ pc = "assemble" => Len(rotation_data[1]) = NumFrames
    /\ \A n \in Names :
         bones[n] # None /\ bones[n][1].rotation # None =>
             KeyedInFrameOrder(bones[n][1].rotation[1], NumFrames)

C7_Witness ==
    /\ pc = "assemble"
    /\ props.end_frame < props.start_frame
    /\ props.step = 2
    /\ start < 0
    /\ rotation_data # None
    /\ Len(rotation_data[1]) >= 2

EmptyObjectSet ==
    IF props.export_selected
    THEN context.selected_objects = <<>>
    ELSE context.active_object = None

\* C9: when the object set is empty (nothing selected with export_selected,
\* or no active object otherwise) execute reports the condition and returns
\* CANCELLED before any frame is set or sampled and without opening or
\* writing the output file.
C9_EmptyObjectSetCancels ==
    EmptyObjectSet /\ pc # "start" =>
        /\ pc = "done"
        /\ result = Some("CANCELLED")
        /\ reports = << "WARNING" >>
        /\ frame_set_calls = 0
        /\ scene_frame = 0
        /\ q_raw = None
        /\ file.content = "untouched"

C9_Witness ==
    /\ pc = "done"
    /\ EmptyObjectSet
    /\ ~props.export_selected
    /\ context.selected_objects # <<>>

\* the failure was reported once: by self.report, or by the exception that
\* left execute
ReportedOnce ==
    Len(reports) + (IF result = Some("RAISED") THEN 1 ELSE 0) = 1

\* C2: a run of execute is all-or-nothing towards the sink: every failure is
\* reported exactly once and leaves no partially written document at the
\* output path; the file holds a document only when the run returns FINISHED,
\* and then the complete one.
C2_AllOrNothing ==
    pc = "done" =>
        /\ ReportedOnce
        /\ ~Finished => file.content = "untouched"
        /\ Finished => /\ file.content = "complete"
                       /\ file.bones = bones
                       /\ \A i \in 1..Len(objects) : bones[objects[i]] # None

(***************************************************************************)
(* SpecCfg: every rotation setting, two objects, the frames 0 and 1.       *)
(***************************************************************************)
CfgContexts ==
    { c \in Contexts : /\ c.export_selected
                       /\ c.active_object = None
                       /\ Len(c.selected_objects) # 1 }

CfgRanges ==
    { r \in FrameRanges : r.start_frame = 0 /\ r.end_frame = 1 /\ r.step = 1 }

InitCfg ==
    /\ InitExec(CfgContexts, CfgRanges, RotationConfigs, WalkSources(AllFrames))
    /\ srch = Idle
    /\ ord = Idle

SpecCfg == InitCfg /\ [][Next]_vars

CodeOrder == << "continuity", "convert", "invert", "swap", "zero", "search" >>

LastVector(chan) == chan[Len(chan)].vector

Rounded(r) == [i \in 1..3 |-> round5(r[i], props.export_degrees)]

\* C1 as amended: for every object and every sampled frame the stages run in
\* the order continuity, conversion, inversion, axis permutation, baseline
\* subtraction, and the closest-equivalent search last; the search receives
\* the permuted and baseline-subtracted triple, and the previous triple it
\* compares against is the one exported for the previous frame of the object,
\* permuted and zeroed (absent on the object's first frame).
C1_SearchRunsLast ==
    /\ pc \in { CodeOrder[i] : i \in 1..6 } \cup { "store" } =>
         \E n \in 0..6 :
            /\ stages = SubSeq(CodeOrder, 1, n)
            /\ pc = IF n = 6 THEN "store" ELSE CodeOrder[n + 1]
    /\ pc = "search" =>
         rot = zero(swap(inverted, props), base_rot_vec, props)
    /\ pc = "store" =>
         /\ rot = search(prev_vals,
                         zero(swap(inverted, props), base_rot_vec, props), props)
         /\ (prev_vals = None) = (frame = start)
         /\ prev_vals # None =>
              LastVector(rotation_data[1]) = Rounded(prev_vals[1])

C1_Witness ==
    /\ pc = "store"
    /\ prev_vals # None
    /\ props.rotation_swap = <<"Z", "X", "Y">>
    /\ props.zero_rot_at_start
    /\ swap(inverted, props) # inverted
    /\ base_rot_vec # <<0, 0, 0>>
    /\ rot # zero(swap(inverted, props), base_rot_vec, props)

\* C1: the stages run in the order continuity, conversion, inversion, search,
\* baseline subtraction, and the axis permutation strictly last; the search
\* never receives a triple that was permuted or baseline-subtracted.
C1_PermutationRunsLast ==
    /\ pc = "search" =>
         /\ stages = << "continuity", "convert", "invert" >>
         /\ rot = inverted
    /\ pc = "store" => stages[Len(stages)] = "swap"

FirstVectorZero(chan) == Len(chan) >= 1 => chan[1].vector = <<0, 0, 0>>

\* C5: with zero_rot_at_start, for every exported object, every start-frame
\* orientation and every setting of the invert flags, rotation_swap, the
\* angular unit, use_axis_unwrap and unwrap_max_shift, the first sample
\* written to the object's rotation channel is [0,0,0].
C5_FirstSampleZero ==
    props.zero_rot_at_start =>
        /\ rotation_data # None => FirstVectorZero(rotation_data[1])
        /\ \A n \in Names :
             /\ bones[n] # None /\ bones[n][1].rotation # None =>
                  FirstVectorZero(bones[n][1].rotation[1])
             /\ file.bones[n] # None /\ file.bones[n][1].rotation # None =>
                  FirstVectorZero(file.bones[n][1].rotation[1])

C5_Witness ==
    /\ pc = "frame"
    /\ obj_i = 2
    /\ props.zero_rot_at_start
    /\ rotation_data # None
    /\ Len(rotation_data[1]) = 1
    /\ rotation_data[1][1].vector = <<0, 0, 0>>
    /\ base_rot_vec[1] = 0
    /\ base_rot_vec[3] # 0
    /\ props.rotation_swap = <<"Y", "Z", "X">>
    /\ props.invert_rot_x
    /\ ~props.export_degrees
    /\ props.use_axis_unwrap
    /\ props.unwrap_max_shift = UnwrapShiftMax

(***************************************************************************)
(* SpecSamples: every source over the frames 1..MaxSampleFrames, every     *)
(* list of objects.                                                        *)
(***************************************************************************)
SampleContexts ==
    { c \in Contexts : c.export_selected /\ c.active_object = None }

SampleRanges ==
    [ start_frame : {1}, end_frame : {MaxSampleFrames}, step : {1} ]

InitSamples ==
    /\ \/ InitExec(SampleContexts, SampleRanges,
                   { g \in FewConfigs : g.export_rotation },
                   Sources(1..MaxSampleFrames))
       \/ InitExec(SampleContexts, SampleRanges,
                   { g \in FewConfigs : ~g.export_rotation },
                   WalkSources(1..MaxSampleFrames))
    /\ srch = Idle
    /\ ord = Idle

SpecSamples == InitSamples /\ [][Next]_vars

\* The export of the object name alone, from frame f on: the quaternion and
\* the triple kept from its frame before, and its channel so far.
RECURSIVE SoloFrom(_, _, _, _, _)
SoloFrom(name, f, pq, pe, chan) ==
    IF f > end
    THEN [quat |-> pq, euler |-> pe, chan |-> chan]
    ELSE LET qq == continuity(pq, source[<<name, f>>])
             base == base_of(source[<<name, start>>], props)
             r == search(pe,
                         zero(swap(invert(euler_convert(qq, props), props), props),
                              base, props),
                         props)
         IN  SoloFrom(name, f + props.step, Some(qq), Some(r),
                      dict_set(chan, time_key(f), Rounded(r)))

Solo(name) == SoloFrom(name, start, None, None, <<>>)

Listed(n) == \E i \in 1..Len(objects) : objects[i] = n

\* C6: continuity state (last quaternion, last exported triple) is per
\* object: the frames of one object neither read nor write the state of
\* another, and for every set of objects and every order of processing the
\* rotation channel of each object is the one it has when exported alone.
C6_StatePerObject ==
    pc # "start" /\ props.export_rotation =>
        /\ \A n \in Names :
             ~Listed(n) => /\ prev_quats[n] = None
                           /\ prev_exported_rot[n] = None
                           /\ bones[n] = None
        /\ \A i \in 1..Len(objects) :
             LET n == objects[i]
             IN  /\ i > obj_i => /\ prev_quats[n] = None
                                 /\ prev_exported_rot[n] = None
                 /\ i = obj_i /\ pc = "assemble" =>
                      rotation_data[1] = Solo(n).chan
                 /\ bones[n] # None =>
                      /\ bones[n][1].rotation[1] = Solo(n).chan
                      /\ prev_quats[n] = Solo(n).quat
                      /\ prev_exported_rot[n] = Solo(n).euler
                 /\ Finished => file.bones[n] = bones[n] /\ bones[n] # None

C6_Witness ==
    /\ Finished
    /\ Len(objects) = 2
    /\ props.use_axis_unwrap
    /\ prev_quats[objects[1]] # prev_quats[objects[2]]
    /\ \E i \in 1..2 :
         /\ prev_quats[objects[i]] # Some(source[<<objects[i], end>>])
         /\ LastVector(bones[objects[i]][1].rotation[1])
              # Rounded(zero(swap(invert(euler_convert(source[<<objects[i], end>>],
                                                       props), props), props),
                             base_of(source[<<objects[i], start>>], props), props))

\* C8: the quaternion stored as an object's continuity state after a frame
\* has a non-negative dot product with the one stored after the frame before
\* (the raw sample is negated exactly when its dot product with the stored
\* one is negative, and the result replaces the stored one); on the object's
\* first frame the raw sample is stored unchanged.
C8_ContinuityFilter ==
    pc = "convert" =>
        /\ prev_quats[obj] = q
        /\ (prevq = None) = (frame = start)
        /\ prevq = None => q = q_raw
        /\ prevq # None =>
             /\ Dot(prevq[1], q[1]) >= 0
             /\ q[1] = IF Dot(prevq[1], q_raw[1]) < 0
                      THEN Neg(q_raw[1]) ELSE q_raw[1]

C8_Witness ==
    /\ pc = "convert"
    /\ obj_i = 2
    /\ prevq # None
    /\ Dot(prevq[1], q_raw[1]) < 0
    /\ q = Some(Neg(q_raw[1]))
    /\ prev_quats[obj] = q

(***************************************************************************)
(* SpecSearch: closest_euler_equiv applied to a candidate, and again to    *)
(* its own result.                                                         *)
(***************************************************************************)
OneOf(S) == { CHOOSE x \in S : TRUE }

\* execute is not run
ExecNotRun ==
    InitExec(OneOf(CfgContexts), OneOf(CfgRanges), OneOf(FewConfigs),
             OneOf(WalkSources(AllFrames)))

Half(in_degrees) == Full(in_degrees) \div 2

\* candidates: the first axis up to MaxHalfTurns half turns either way, on
\* the half turn and one unit past it
SearchCandidates(in_degrees) ==
    { << h * Half(in_degrees) + d, y, z >> :
        h \in (0 - MaxHalfTurns)..MaxHalfTurns, d \in {0, 1},
        y \in {0, Half(in_degrees)},
        z \in {0, 0 - Half(in_degrees), Half(in_degrees) + 1} }

SearchPrevious(in_degrees) ==
    { None } \cup
    { Some(<< x, 0, z >>) : x \in {0, Half(in_degrees) - 1},
                            z \in {0, Half(in_degrees)} }

InitSearch ==
    /\ ExecNotRun
    /\ ord = Idle
    /\ \E in_degrees \in BOOLEAN :
       \E max_shift \in UnwrapShiftMin..UnwrapShiftMax :
       \E prev \in SearchPrevious(in_degrees) :
       \E cur \in SearchCandidates(in_degrees) :
          srch = [pc |-> "input", in_degrees |-> in_degrees,
                  max_shift |-> max_shift, prev |-> prev, cur |-> cur,
                  out |-> cur, again |-> cur]

\* out = closest_euler_equiv(prev, cur)
ApplySearch ==
    /\ srch.pc = "input"
    /\ srch' = [srch EXCEPT
                  !.pc = "once",
                  !.out = closest_euler_equiv(srch.prev, srch.cur,
                                              srch.in_degrees, srch.max_shift)]
    /\ UNCHANGED << exec_vars, ord >>

\* again = closest_euler_equiv(prev, out)
ApplySearchAgain ==
    /\ srch.pc = "once"
    /\ srch' = [srch EXCEPT
                  !.pc = "twice",
                  !.again = closest_euler_equiv(srch.prev, srch.out,
                                                srch.in_degrees, srch.max_shift)]
    /\ UNCHANGED << exec_vars, ord >>

NextSearch == ApplySearch \/ ApplySearchAgain

SpecSearch == InitSearch /\ [][NextSearch]_vars

Shifts(K) == ((0 - K)..K) \X ((0 - K)..K) \X ((0 - K)..K)

Shifted(cur, k, full) == [i \in 1..3 |-> cur[i] + k[i] * full]

Distance2(a, b) ==
    (a[1] - b[1]) * (a[1] - b[1]) + (a[2] - b[2]) * (a[2] - b[2])
        + (a[3] - b[3]) * (a[3] - b[3])

LexLeq(a, b) ==
    \/ a[1] < b[1]
    \/ a[1] = b[1] /\ a[2] < b[2]
    \/ a[1] = b[1] /\ a[2] = b[2] /\ a[3] <= b[3]

\* out is cur shifted by the first, in ascending lexicographic order, of the
\* shifts of [-K,K]^3 that bring it closest to prev
ClosestFirstSeen(out, prev, cur, full, K) ==
    \E k \in Shifts(K) :
        /\ out = Shifted(cur, k, full)
        /\ \A k2 \in Shifts(K) :
             /\ Distance2(out, prev) <= Distance2(Shifted(cur, k2, full), prev)
             /\ Distance2(out, prev) = Distance2(Shifted(cur, k2, full), prev)
                   => LexLeq(k, k2)

\* C4: for a present prev, closest_euler_equiv(prev, cur, K) is
\* cur + (kx,ky,kz)*Full for the shift of [-K,K]^3 that minimises the squared
\* distance to prev, the first in ascending lexicographic order among equally
\* close ones; with K = 0 it is cur, with K = 1, prev = (179,0,0) and
\* cur = (-179,0,0) degrees it is (181,0,0); for an absent prev it is cur.
C4_ClosestFirstSeen ==
    srch.pc \in {"once", "twice"} =>
        /\ srch.prev = None => srch.out = srch.cur
        /\ srch.prev # None =>
             ClosestFirstSeen(srch.out, srch.prev[1], srch.cur,
                              Full(srch.in_degrees), srch.max_shift)
        /\ srch.max_shift = 0 => srch.out = srch.cur
        /\ ( /\ srch.in_degrees
             /\ srch.max_shift = 1
             /\ srch.prev = Some(<<179, 0, 0>>)
             /\ srch.cur = <<-179, 0, 0>> ) => srch.out = <<181, 0, 0>>

C4_Witness ==
    /\ srch.pc = "once"
    /\ srch.prev # None
    /\ srch.max_shift = 2
    /\ srch.out[3] # srch.cur[3]
    /\ srch.out[2] # srch.cur[2]
    /\ \E k \in Shifts(srch.max_shift) :
         /\ Shifted(srch.cur, k, Full(srch.in_degrees)) # srch.out
         /\ Distance2(Shifted(srch.cur, k, Full(srch.in_degrees)), srch.prev[1])
              = Distance2(srch.out, srch.prev[1])

\* C3: closest_euler_equiv(prev, closest_euler_equiv(prev, cur, K), K) is
\* closest_euler_equiv(prev, cur, K), for every prev, cur, unit and K in 0..3.
C3_Idempotent ==
    srch.pc = "twice" => srch.again = srch.out

\* cur lies on every axis within K and a half turns of prev, the lower end
\* included and the upper end not
InReach ==
    \A i \in 1..3 :
        LET d == srch.cur[i] - srch.prev[1][i]
            reach == (2 * srch.max_shift + 1) * Full(srch.in_degrees)
        IN  0 - reach <= 2 * d /\ 2 * d < reach

\* C3 as amended: the second application returns the result of the first
\* when prev is absent, when K = 0, or when cur lies on every axis within
\* K + 1/2 full turns of prev (-(K + 1/2) Full <= cur - prev < (K + 1/2) Full),
\* ties included; for K >= 1 and a cur outside that reach it returns another
\* triple.
C3_IdempotentInReach ==
    srch.pc = "twice" =>
        (srch.again = srch.out) =
            (srch.prev = None \/ srch.max_shift = 0 \/ InReach)

C3_Witness ==
    /\ srch.pc = "twice"
    /\ srch.prev # None
    /\ srch.max_shift >= 1
    /\ InReach
    /\ srch.again = srch.out
    /\ srch.out # srch.cur
    /\ \E i \in 1..3 :
         2 * (srch.out[i] - srch.prev[1][i]) = 0 - Full(srch.in_degrees)

(***************************************************************************)
(* SpecOrder: the stages after the inversion, on any inverted triples, in  *)
(* the order of execute and in the order search, zero, swap.               *)
(***************************************************************************)
OrderConfigs ==
    { g \in RotationConfigs :
        g.export_rotation /\ ~g.invert_rot_x /\ ~g.invert_rot_y /\ ~g.invert_rot_z }

OrderTriples(in_degrees) ==
    { << x, y, 1 >> : x \in {0, 3 * Half(in_degrees)},
                      y \in {0, 0 - Half(in_degrees)} }

OrderBases(in_degrees) ==
    { << Half(in_degrees), 0, 1 >>, << 0, 0 - Half(in_degrees), 3 >> }

\* lines 268-281 on the inverted triple inv of a frame: the triple stored in
\* prev_exported_rot; base is the inverted triple of the start frame
code_stages(prev, inv, base, p) ==
    search(prev, zero(swap(inv, p), base_swap(base, p), p), p)

InitOrder ==
    /\ ExecNotRun
    /\ srch = Idle
    /\ \E p \in OrderConfigs : \E base \in OrderBases(p.export_degrees) :
          ord = [pc |-> "run", p |-> p, base |-> base, n |-> 0,
                 inv |-> <<0, 0, 0>>, before |-> None,
                 prev_code |-> None, prev_spec |-> None,
                 out_code |-> <<0, 0, 0>>, out_spec |-> <<0, 0, 0>>]

\* one more frame, through both orders
OrderFrame ==
    /\ ord.pc = "run"
    /\ ord.n < MaxOrderFrames
    /\ \E inv \in OrderTriples(ord.p.export_degrees) :
         LET p == ord.p
             stored == code_stages(ord.prev_code, inv, ord.base, p)
             found == search(ord.prev_spec, inv, p)
             last == swap(zero(found, ord.base, p), p)
         IN  ord' = [ord EXCEPT
                       !.n = ord.n + 1,
                       !.inv = inv,
                       !.before = ord.prev_spec,
                       !.prev_code = Some(stored),
                       !.prev_spec = Some(found),
                       !.out_code = [i \in 1..3 |-> round5(stored[i], p.export_degrees)],
                       !.out_spec = [i \in 1..3 |-> round5(last[i], p.export_degrees)]]
    /\ UNCHANGED << exec_vars, srch >>

NextOrder == OrderFrame

SpecOrder == InitOrder /\ [][NextOrder]_vars

\* C10: in exact arithmetic, for every sequence of inverted triples of one
\* object, every rotation_swap, every baseline and every max_shift, the
\* vectors execute emits in its own order (permute, subtract the permuted
\* baseline, search against the permuted and zeroed history) equal, frame by
\* frame, those of the order search against the un-zeroed un-permuted
\* history, subtract the baseline, permute - ties included.
C10_OrdersAgree ==
    ord.pc = "run" => ord.out_code = ord.out_spec

C10_Witness ==
    /\ ord.pc = "run"
    /\ ord.n = 2
    /\ ord.p.rotation_swap = <<"Z", "X", "Y">>
    /\ ord.p.zero_rot_at_start
    /\ ord.p.use_axis_unwrap
    /\ ord.p.unwrap_max_shift >= 1
    /\ ord.prev_spec[1] # ord.inv
    /\ \E i \in 1..3 :
         2 * (ord.inv[i] - ord.before[1][i]) = Full(ord.p.export_degrees)
    /\ ord.out_code = ord.out_spec

=============================================================================
